---- MODULE Spec2Model ----
(***************************************************************************)
(* Model of the nano-context subsystem of the editor:                      *)
(*   - NanoContextService (src/src/services/nano-context-service.ts):      *)
(*     generation, request coalescing, service-level persistence;          *)
(*   - useNanoContext (src/unnamed/part_001): the hook-level record store  *)
(*     with its load effect, save effect, eviction and emergency cleanup;  *)
(*   - context compression (src/unnamed/part_003);                         *)
(*   - TextEditor.handleContextUpdate (debounced trigger).                 *)
(* Both persistence paths write the same localStorage key.                 *)
(***************************************************************************)
EXTENDS Integers, Sequences, FiniteSets, TLC

(***************************************************************************)
(* Bounds of the model.                                                    *)
(***************************************************************************)
\* number of distinct normalized texts (fingerprints) the inputs are drawn from
NumTexts == 3
\* the clock runs from 0 to MaxTime
MaxTime == 2
\* number of generateContextForText invocations tracked per session
MaxCalls == 2
\* usageCount values above this are not explored
MaxUsage == 1
\* number of save-effect runs explored after one put
MaxSaves == 4
\* number of editor text-change triggers explored per session
MaxTriggers == 3
\* number of page loads explored
MaxSessions == 2

(***************************************************************************)
(* Configuration (DEFAULT_NANO_CONTEXT_CONFIG), scaled down.               *)
(***************************************************************************)
\* thresholds.maxContexts
maxContexts == 2
\* thresholds.contextExpiryMs, in clock ticks
contextExpiryMs == 2
\* maxTextLength, in characters
maxTextLength == 3

Hashes == 1..NumTexts
Models == {"m1", "m2"}
CallIds == 1..MaxCalls

None == [none |-> TRUE]
\* Date built from undefined: getTime() is NaN
NaN == -1
\* a numeric field that is undefined
Undef == -1

(***************************************************************************)
(* Texts.  A text is known by its normalized form (norm, 0 for a text that *)
(* is empty after trim) and by whether its raw length exceeds              *)
(* maxTextLength.  Two raw texts with the same normalized form (different  *)
(* case or runs of whitespace) may differ in raw length.                   *)
(***************************************************************************)
Blank == [norm |-> 0, large |-> FALSE]
Texts == [norm : Hashes, large : BOOLEAN]

\* a text of one word character, such as "a"
OneChar == [norm |-> NumTexts, large |-> FALSE, chars |-> 1]

\* text.length, as far as the guards tell lengths apart
Length(text) ==
  IF text = OneChar THEN 1
  ELSE IF text.large THEN maxTextLength + 1
  ELSE 2

\* smartTruncateText(text, maxTextLength): the start and the end of a large text
\* around a truncation message, which is another text with another hash
smartTruncateText(text) ==
  IF Length(text) <= maxTextLength THEN text
  ELSE [norm |-> (text.norm % NumTexts) + 1, large |-> FALSE]

\* config.minTextLength: DEFAULT_NANO_CONTEXT_CONFIG and NanoContextConfig have
\* no such option, so the value read is undefined
minTextLength == Undef

\* text.length < this.config.minTextLength: a comparison with undefined is false
TooShort(text) == IF minTextLength = Undef THEN FALSE ELSE Length(text) < minTextLength

\* createTextHash: the hash is computed from normalizeText(text) only
createTextHash(text) == text.norm

\* tokenizeText on the example texts: stop-word-filtered token sets
Tokens(text) ==
  CASE text.norm = 0 -> {}
    [] text = OneChar -> {}
    [] text.norm = 1 -> {"w1", "w2", "w3", "w4"}
    [] text.norm = 2 -> {"w1", "w2", "w3", "w4", "w5"}
    [] text.norm = 3 -> {"w1", "w2", "w3", "w4", "w5", "w6"}
    [] OTHER -> {"w7", "w8"}

\* similarity > updateThreshold in place of similarity >= updateThreshold
SimilarAboveThreshold(a, b) ==
  LET A == Tokens(a)
      B == Tokens(b)
  IN  IF a = b THEN TRUE
      ELSE IF A = {} /\ B = {} THEN TRUE
      ELSE IF A = {} \/ B = {} THEN FALSE
      ELSE 5 * Cardinality(A \cap B) > 4 * Cardinality(A \cup B)

\* calculateJaccardSimilarity(a, b) >= updateThreshold (0.8 = 4/5)
SimilarAtLeastThreshold(a, b) ==
  LET A == Tokens(a)
      B == Tokens(b)
  IN  IF a = b THEN TRUE
      ELSE IF A = {} /\ B = {} THEN TRUE
      ELSE IF A = {} \/ B = {} THEN FALSE
      ELSE 5 * Cardinality(A \cap B) >= 4 * Cardinality(A \cup B)

(***************************************************************************)
(* calculateJaccardSimilarity on texts given word by word.  A text is the   *)
(* sequence of its raw words; the vocabulary has a capitalised word, its    *)
(* lowercase form, another word, a stop word and a one-letter word.  Texts  *)
(* of this size are far below the sampling threshold of tokenizeText.       *)
(***************************************************************************)
MaxWords == 2
Vocabulary == {"Cat", "cat", "dog", "the", "x"}
WordTexts == UNION {[1..n -> Vocabulary] : n \in 0..MaxWords}

\* the words of the vocabulary that are in STOP_WORDS
STOP_WORDS == {"the"}

\* toLowerCase, word by word
normalizeWord(w) == IF w = "Cat" THEN "cat" ELSE w

\* word.length
WordLength(w) == IF w = "x" THEN 1 ELSE 3

\* tokenizeText: the set of normalized words of at least two characters that
\* are not stop words
tokenizeText(text) ==
  {w \in {normalizeWord(text[i]) : i \in DOMAIN text} :
     WordLength(w) >= 2 /\ w \notin STOP_WORDS}

\* similarity values as fractions
Ratio(n, d) == [num |-> n, den |-> d]

\* |A n B| / |A| in place of |A n B| / |A u B|
calculateContainment(text1, text2) ==
  LET tokens1 == tokenizeText(text1)
      tokens2 == tokenizeText(text2)
  IN  IF text1 = text2 THEN Ratio(1, 1)
      ELSE IF tokens1 = {} /\ tokens2 = {} THEN Ratio(1, 1)
      ELSE IF tokens1 = {} \/ tokens2 = {} THEN Ratio(0, 1)
      ELSE Ratio(Cardinality(tokens1 \cap tokens2), Cardinality(tokens1))

\* calculateJaccardSimilarity(text1, text2)
calculateJaccardSimilarity(text1, text2) ==
  LET tokens1 == tokenizeText(text1)
      tokens2 == tokenizeText(text2)
  IN  IF text1 = text2 THEN Ratio(1, 1)
      ELSE IF tokens1 = {} /\ tokens2 = {} THEN Ratio(1, 1)
      ELSE IF tokens1 = {} \/ tokens2 = {} THEN Ratio(0, 1)
      ELSE Ratio(Cardinality(tokens1 \cap tokens2), Cardinality(tokens1 \cup tokens2))

(***************************************************************************)
(* Records (TextContext).  h textHash, d description (0 undefined,         *)
(* 1 generated, 2 generated from truncated large text), m model id,        *)
(* ts timestamp, lu lastUsed, u usageCount, ka keyArguments is defined,     *)
(* l textLength.                                                           *)
(***************************************************************************)
Rec(h, d, m, ts, lu, u, ka, l) ==
  [h |-> h, d |-> d, m |-> m, ts |-> ts, lu |-> lu, u |-> u, ka |-> ka, l |-> l]

VARIABLES
  now,              \* Date.now()
  storage,          \* localStorage[NANO_CONTEXT_STORAGE_KEY]: None or a ContextStorage
  contexts,         \* useNanoContext: contexts state, in key order
  isLoaded,         \* useNanoContext: isLoaded state
  savePending,      \* the save effect is scheduled (contexts or isLoaded changed)
  saves,            \* save-effect runs since the last put
  cleanups,         \* emergency cleanups since the last put
  generationQueue,  \* NanoContextService.generationQueue: key -> owner call, 0 if absent
  calls,            \* generateContextForText invocations of this session
  defaultModel,     \* TextEditor: defaultModel state
  previousContent,  \* TextEditor: previousContent state
  currentContext,   \* TextEditor: currentContext state (None if null)
  timers,           \* pending setTimeout callbacks of handleContextUpdate
  contextUpdateTimer, \* TextEditor: contextUpdateTimer state (id of a timer, 0 if null)
  triggers,         \* text-change triggers handled in this session
  lastTrigger,      \* text of the latest trigger that reached handleContextUpdate
  sessions,         \* page loads so far
  raised,           \* an error escaped to the caller of a public operation
  persistedAt,      \* per fingerprint: when its generated record was persisted
                    \* (Undef if never, or if the hook has evicted the record since)
  enabled,          \* NanoContextService.config.enabled
  probe,            \* a pure function applied to an input: its name, input and result
  last              \* the last operation and what it returned

vars == <<now, storage, contexts, isLoaded, savePending, saves, cleanups,
          generationQueue, calls, defaultModel, previousContent, currentContext,
          timers, contextUpdateTimer, triggers, lastTrigger, sessions, raised,
          persistedAt, enabled, probe, last>>

hookVars == <<contexts, isLoaded, savePending, saves, cleanups>>
serviceVars == <<generationQueue, calls>>
editorVars == <<defaultModel, previousContent, currentContext, timers, contextUpdateTimer,
                triggers, lastTrigger>>

(***************************************************************************)
(* JavaScript helpers.                                                     *)
(***************************************************************************)
\* position of key h in an object's key order, 0 if absent
IndexOf(seq, h) ==
  IF \E i \in 1..Len(seq) : seq[i].h = h
  THEN CHOOSE i \in 1..Len(seq) : seq[i].h = h
  ELSE 0

HasKey(seq, h) == IndexOf(seq, h) # 0

\* obj[key] = val: an existing key keeps its position, a new key is appended
PutKey(seq, val) ==
  IF HasKey(seq, val.h)
  THEN [seq EXCEPT ![IndexOf(seq, val.h)] = val]
  ELSE Append(seq, val)

Keys(seq) == {seq[i].h : i \in 1..Len(seq)}
Range(seq) == {seq[i] : i \in 1..Len(seq)}

\* slice(0, k) in place of slice(-k): keeps the least favoured entries
SliceFirst(seq, k) ==
  IF k >= Len(seq) THEN seq ELSE SubSeq(seq, 1, k)

\* Array.prototype.slice(-k): the last k elements; slice(-0) is slice(0)
SliceLast(seq, k) ==
  IF k = 0 \/ k >= Len(seq) THEN seq
  ELSE SubSeq(seq, Len(seq) - k + 1, Len(seq))

\* the comparator of the three sort calls of the hook: lastUsed, then usageCount;
\* a NaN difference is treated as 0 by Array.prototype.sort
Compare(a, b) ==
  IF a.lu = NaN \/ b.lu = NaN THEN 0
  ELSE IF a.lu # b.lu THEN a.lu - b.lu
  ELSE IF a.u = Undef \/ b.u = Undef THEN 0
  ELSE a.u - b.u

\* insert x after every element that does not compare greater than x
InsertSorted(sorted, x) ==
  LET p == IF \A i \in 1..Len(sorted) : Compare(sorted[i], x) <= 0
           THEN Len(sorted)
           ELSE (CHOOSE i \in 1..Len(sorted) :
                   /\ Compare(sorted[i], x) > 0
                   /\ \A j \in 1..(i - 1) : Compare(sorted[j], x) <= 0) - 1
  IN  SubSeq(sorted, 1, p) \o <<x>> \o SubSeq(sorted, p + 1, Len(sorted))

RECURSIVE SortFrom(_, _)
SortFrom(seq, acc) ==
  IF seq = <<>> THEN acc
  ELSE SortFrom(Tail(seq), InsertSorted(acc, Head(seq)))

\* entries.sort(comparator): stable, ascending
SortEntries(seq) == SortFrom(seq, <<>>)

(***************************************************************************)
(* Compression (context-compression).                                      *)
(***************************************************************************)
\* compressContext throws a TypeError when keyArguments or description is undefined
CompressThrows(c) == ~c.ka \/ c.d = 0

compressContext(c) == [form |-> "comp", h |-> c.h, rec |-> c]

RECURSIVE compressContextBatch(_)
\* a record whose compression throws is skipped
compressContextBatch(seq) ==
  IF seq = <<>> THEN <<>>
  ELSE IF CompressThrows(Head(seq)) THEN compressContextBatch(Tail(seq))
  ELSE <<compressContext(Head(seq))>> \o compressContextBatch(Tail(seq))

\* JSON.stringify of a TextContext written uncompressed
RawEntry(c) == [form |-> "raw", h |-> c.h, rec |-> c]

\* decompressContext(entry, key): an uncompressed entry has none of the short
\* fields, so every field read from it is undefined
decompressContext(e) ==
  IF e.form = "comp"
  THEN Rec(e.h, e.rec.d, e.rec.m, e.rec.ts, e.rec.lu, e.rec.u, TRUE, e.rec.l)
  ELSE Rec(e.h, 0, "undefined", NaN, NaN, Undef, TRUE, Undef)

\* { ...context, timestamp: new Date(context.timestamp), lastUsed: ... } on an
\* entry read as uncompressed: a compressed entry has no timestamp/lastUsed
ReadUncompressed(e) ==
  IF e.form = "raw"
  THEN e.rec
  ELSE Rec(e.h, 0, "undefined", NaN, NaN, Undef, FALSE, Undef)

(***************************************************************************)
(* Service-level persistence.                                              *)
(***************************************************************************)
\* a record stops being valid one tick early
isCacheValidShort(c) == c.ts # NaN /\ now - c.ts < contextExpiryMs - 1

\* isCacheValid: age < contextExpiryMs (false for an Invalid Date)
isCacheValid(c) == c.ts # NaN /\ now - c.ts < contextExpiryMs

getContextFromLocalStorage(h) ==
  IF storage = None THEN None
  ELSE IF ~HasKey(storage.contexts, h) THEN None
  ELSE ReadUncompressed(storage.contexts[IndexOf(storage.contexts, h)])

\* the value of localStorage after saveContextToLocalStorage(context);
\* ok = FALSE: setItem throws QuotaExceededError, which is caught and logged
saveContextToLocalStorage(context, ok) ==
  LET existing == IF storage = None
                  THEN [contexts |-> <<>>, compressed |-> FALSE]
                  ELSE storage
  IN  IF ok
      THEN [existing EXCEPT !.contexts = PutKey(existing.contexts, RawEntry(context))]
      ELSE storage

(***************************************************************************)
(* Hook-level store (useNanoContext).                                      *)
(***************************************************************************)
\* arg: the argument, a text, a fingerprint [hash |-> h] or, for the save effect,
\* the number of records to write [count |-> n]; None if there is none
\* how: which path the operation took
\* who: the call that made the external request, 0 if none
OpBy(name, arg, ret, failed, how, who) ==
  [op |-> name, arg |-> arg, ret |-> ret, failed |-> failed, how |-> how, who |-> who,
   cbs |-> 0, cb |-> "-", checked |-> None]

Op(name, arg, ret, failed, how) == OpBy(name, arg, ret, failed, how, 0)

\* usageCount++ (undefined + 1 is NaN)
Incr(u) == IF u = Undef THEN Undef ELSE u + 1

\* persistedAt once the hook's collection went from before to after: a record
\* the hook has evicted no longer counts as persisted
Forget(before, after) ==
  [h \in Hashes |-> IF h \in Keys(before) /\ h \notin Keys(after) THEN Undef
                    ELSE persistedAt[h]]

\* the state update of addContext: insert with lastUsed = now and usageCount = 0,
\* then keep the last maxContexts entries of the sorted collection
addContextUpdate(prev, context) ==
  LET newContexts == PutKey(prev, [context EXCEPT !.lu = now, !.u = 0])
  IN  IF Len(newContexts) > maxContexts
      THEN SliceLast(SortEntries(newContexts), maxContexts)
      ELSE newContexts

\* the emergency cleanup of the save effect: keep floor(n / 2) entries
emergencyCleanup(prev) ==
  SliceLast(SortEntries(prev), Len(prev) \div 2)

\* the catch blocks rethrow the QuotaExceededError
WriteErrorRethrown(ok) == ~ok

\* what a failed write of saveContextToLocalStorage or of the save effect lets
\* escape to its caller: both catch the error and only log it
WriteErrorEscapes(ok) == FALSE

\* the load effect, run once per page load
LoadStorage ==
  /\ ~isLoaded
  /\ contexts' =
       IF storage = None THEN contexts
       ELSE IF storage.compressed
       THEN [i \in 1..Len(storage.contexts) |-> decompressContext(storage.contexts[i])]
       ELSE [i \in 1..Len(storage.contexts) |-> ReadUncompressed(storage.contexts[i])]
  /\ isLoaded' = TRUE
  /\ savePending' = TRUE
  /\ saves' = 0
  /\ cleanups' = 0
  /\ last' = Op("loadStorage", None, None, FALSE, "-")
  /\ UNCHANGED <<probe, enabled, now, storage, serviceVars, editorVars, sessions, raised, persistedAt>>

\* the save effect, run after contexts or isLoaded changed; ok = FALSE: setItem
\* throws QuotaExceededError
SaveEffect(ok) ==
  /\ isLoaded
  /\ savePending
  /\ saves < MaxSaves
  /\ saves' = saves + 1
  /\ IF ok
     THEN /\ storage' = [contexts |-> compressContextBatch(contexts), compressed |-> TRUE]
          /\ savePending' = FALSE
          /\ UNCHANGED <<contexts, cleanups, persistedAt>>
     ELSE /\ UNCHANGED storage
          /\ IF Len(contexts) > 0
             THEN /\ contexts' = emergencyCleanup(contexts)
                  /\ persistedAt' = Forget(contexts, emergencyCleanup(contexts))
                  /\ cleanups' = cleanups + 1
                  /\ savePending' = TRUE
             ELSE /\ savePending' = FALSE
                  /\ UNCHANGED <<contexts, cleanups, persistedAt>>
  /\ raised' = (raised \/ WriteErrorEscapes(ok))
  /\ last' = Op("saveEffect", [count |-> Len(contexts)], None, ~ok, IF ok THEN "saved" ELSE "cleanup")
  /\ UNCHANGED <<probe, enabled, now, isLoaded, serviceVars, editorVars, sessions>>

\* addContext(context), with a record as the service hands it to the callback
AddContext(context) ==
  /\ isLoaded
  /\ contexts' = addContextUpdate(contexts, context)
  /\ persistedAt' = Forget(contexts, addContextUpdate(contexts, context))
  /\ savePending' = TRUE
  /\ saves' = 0
  /\ cleanups' = 0
  /\ last' = Op("addContext", [hash |-> context.h], None, FALSE,
                IF Len(PutKey(contexts, context)) > maxContexts THEN "evicted" ELSE "kept")
  /\ UNCHANGED <<probe, enabled, now, storage, isLoaded, serviceVars, editorVars, sessions, raised>>

\* getContext(textHash)
GetContext(h) ==
  /\ isLoaded
  /\ IF HasKey(contexts, h)
     THEN LET context == contexts[IndexOf(contexts, h)]
          IN  /\ context.u < MaxUsage
              /\ contexts' = PutKey(contexts, [context EXCEPT !.lu = now, !.u = Incr(context.u)])
              /\ savePending' = TRUE
              /\ saves' = 0
              /\ cleanups' = 0
              /\ last' = Op("getContext", [hash |-> h], context, FALSE, "hit")
     ELSE /\ last' = Op("getContext", [hash |-> h], None, FALSE, "miss")
          /\ UNCHANGED <<contexts, savePending, saves, cleanups>>
  /\ UNCHANGED <<probe, enabled, now, storage, isLoaded, serviceVars, editorVars, sessions, raised,
                 persistedAt>>

\* { ...prev[textHash], ...updates }: every field that updates names is
\* overwritten
MergeUpdates(context, updates) ==
  [f \in DOMAIN context |-> IF f \in DOMAIN updates THEN updates[f] ELSE context[f]]

\* updateContext(textHash, updates)
UpdateContext(h, updates) ==
  /\ isLoaded
  /\ IF HasKey(contexts, h)
     THEN /\ contexts' = PutKey(contexts,
                 [MergeUpdates(contexts[IndexOf(contexts, h)], updates) EXCEPT !.lu = now])
          /\ savePending' = TRUE
          /\ saves' = 0
          /\ cleanups' = 0
          /\ last' = Op("updateContext", [hash |-> h], None, FALSE, "present")
     ELSE /\ last' = Op("updateContext", [hash |-> h], None, FALSE, "absent")
          /\ UNCHANGED <<contexts, savePending, saves, cleanups>>
  /\ UNCHANGED <<probe, enabled, now, storage, isLoaded, serviceVars, editorVars, sessions, raised,
                 persistedAt>>

Tick ==
  /\ now < MaxTime
  /\ now' = now + 1
  /\ last' = Op("tick", None, None, FALSE, "-")
  /\ UNCHANGED <<probe, enabled, storage, hookVars, serviceVars, editorVars, sessions, raised,
                 persistedAt>>

(***************************************************************************)
(* Generation coordinator (NanoContextService).                            *)
(***************************************************************************)
NoModel == "none"

\* sent: the text given to sendToAI
FreeCall == [st |-> "free", text |-> Blank, m |-> NoModel, own |-> FALSE,
             gen |-> 0, res |-> None, via |-> "-", seen |-> {}, sent |-> Blank]

HasFreeCall == \E c \in CallIds : calls[c].st = "free"
FreeSlot == CHOOSE c \in CallIds :
              calls[c].st = "free" /\ \A b \in CallIds : calls[b].st = "free" => c <= b

\* the key of generationQueue: `${textHash}-${model.id}`
CacheKey(h, m) == <<h, m>>

QueueKeys == {CacheKey(h, m) : h \in Hashes, m \in Models}

\* owners with a pending sendToAI call for the same text and model
PendingSame(text, m) ==
  {o \in CallIds : calls[o].st = "waiting" /\ calls[o].own
                    /\ calls[o].text = text /\ calls[o].m = m}

\* the record of a large text is keyed by the hash of the truncated text
RecordKeyOfTruncated(text) == createTextHash(smartTruncateText(text))

\* textHash of a generated record: generateContextForText passes
\* createTextHash(text), generateContextForLargeText passes originalTextHash
RecordKey(text) == createTextHash(text)

\* the record built by performContextGeneration / performContextGenerationDirect
\* from a parsed response; actual is response.actualModel || model
NewContext(text, actual) ==
  Rec(RecordKey(text), IF text.large THEN 2 ELSE 1, actual, now, now, 0, FALSE,
      Length(text))

\* a record with no description is built from a response that does not parse
GenerationResultPartial(text, outcome, actual) ==
  IF outcome = "ok" THEN NewContext(text, actual)
  ELSE IF outcome = "unparsable"
  THEN Rec(createTextHash(text), 0, actual, now, now, 0, FALSE, Length(text))
  ELSE None

\* what performContextGeneration resolves to: the record when the response
\* parses; null when the response carries an error ("error"), sendToAI throws
\* ("throws") or neither parseContextResponse nor extractContextFromFreeText
\* yields a record ("unparsable")
GenerationResult(text, outcome, actual) ==
  IF outcome = "ok" THEN NewContext(text, actual) ELSE None

\* the callbacks a caller of checkAndUpdateContext may supply: one that
\* returns (the editor's, which calls addContext) and one that throws
Callbacks == {"adds", "throws"}

\* the callback's exception propagates to the outer catch of checkAndUpdateContext
CallbackErrorRethrown(cb) == cb = "throws"

\* checkAndUpdateContext: the call of onContextUpdate is in a try/catch of its
\* own that logs the error
CallbackErrorEscapes(cb) == FALSE

\* what checkAndUpdateContext returns after generateContextForText returned
\* newContext: the outer catch returns null
CheckReturn(newContext, cb) ==
  IF newContext # None /\ CallbackErrorEscapes(cb) THEN None ELSE newContext

\* generateContextForText(text, m) and, for a text longer than maxTextLength,
\* generateContextForLargeText(text, m), up to the first await.  via = "check":
\* called by checkAndUpdateContext from the editor's timer, whose callback hands
\* the record to addContext and whose caller then sets previousContent.
\* ok = FALSE: the setItem of the usage update throws QuotaExceededError.
\* A call that returns at once is kept in calls only when it returned while an
\* external request for its text and model was pending, until that request returns.
StartGenerateCb(opname, text, m, via, ok, cb) ==
  LET h == createTextHash(text)
      key == CacheKey(h, m)
      stored == getContextFromLocalStorage(h)
      c == FreeSlot
      seen == PendingSame(text, m)
      call == [st |-> "waiting", text |-> text, m |-> m, own |-> FALSE,
               gen |-> 0, res |-> None, via |-> via, seen |-> seen, sent |-> Blank]
  IN  IF stored # None /\ isCacheValid(stored)
      THEN LET hit == [stored EXCEPT !.lu = now, !.u = Incr(stored.u)]
           IN  /\ stored.u < MaxUsage
               /\ storage' = saveContextToLocalStorage(hit, ok)
               /\ raised' = (raised \/ WriteErrorEscapes(ok))
               /\ IF seen = {}
                  THEN UNCHANGED calls
                  ELSE /\ HasFreeCall
                       /\ calls' = [calls EXCEPT ![c] = [call EXCEPT !.st = "done", !.res = hit]]
               /\ last' = [Op(opname, text, hit, ~ok, "hit") EXCEPT
                             !.cbs = IF via = "check" THEN 1 ELSE 0,
                             !.cb = IF via = "check" THEN cb ELSE "-",
                             !.checked = IF via = "check" THEN CheckReturn(hit, cb) ELSE None]
               /\ UNCHANGED generationQueue
               /\ IF via = "check" /\ cb = "throws"
                  THEN /\ previousContent' = text
                       /\ UNCHANGED <<hookVars, persistedAt, currentContext>>
                  ELSE IF via = "check"
                  THEN /\ contexts' = addContextUpdate(contexts, hit)
                       /\ persistedAt' = Forget(contexts, addContextUpdate(contexts, hit))
                       /\ savePending' = TRUE
                       /\ saves' = 0
                       /\ cleanups' = 0
                       /\ previousContent' = text
                       /\ currentContext' = hit
                       /\ UNCHANGED isLoaded
                  ELSE UNCHANGED <<hookVars, previousContent, currentContext, persistedAt>>
      ELSE /\ HasFreeCall
           /\ UNCHANGED <<storage, raised, hookVars, previousContent, currentContext,
                          persistedAt>>
           /\ IF generationQueue[key] # 0
              THEN /\ calls' = [calls EXCEPT ![c] = [call EXCEPT !.gen = generationQueue[key]]]
                   /\ last' = OpBy(opname, text, None, FALSE, "coalesced", generationQueue[key])
                   /\ UNCHANGED generationQueue
              ELSE /\ calls' = [calls EXCEPT ![c] = [call EXCEPT !.own = TRUE, !.gen = c,
                                                           !.sent = smartTruncateText(text)]]
                   /\ generationQueue' = [generationQueue EXCEPT ![key] = c]
                   /\ last' = OpBy(opname, text, None, FALSE, "started", c)

\* generateContextForText called directly or with the editor's callback, which
\* is addContext and does not throw
StartGenerate(opname, text, m, via, ok) == StartGenerateCb(opname, text, m, via, ok, "adds")

\* the guards of generateContextForText: service disabled, empty text, no model,
\* text below the minimum length
Rejected(text, m) ==
  ~enabled \/ text = Blank \/ m = NoModel \/ TooShort(text)

\* a component other than the editor's timer asks for a context
GenerateContextForText(text, m, ok) ==
  /\ isLoaded
  /\ IF Rejected(text, m)
     THEN /\ last' = Op("generateContextForText", text, None, FALSE, "rejected")
          /\ UNCHANGED <<storage, raised, hookVars, serviceVars, previousContent,
                         currentContext, persistedAt>>
     ELSE StartGenerate("generateContextForText", text, m, "direct", ok)
  /\ UNCHANGED <<probe, enabled, now, defaultModel, timers, contextUpdateTimer, triggers,
                 lastTrigger, sessions>>

RECURSIVE ApplyAddContext(_, _, _)
\* n calls of addContext(context), one per callback
ApplyAddContext(prev, context, n) ==
  IF n = 0 THEN prev
  ELSE ApplyAddContext(addContextUpdate(prev, context), context, n - 1)

\* the entry is deleted after a successful generation only
QueueAfterSuccess(queue, key, res) ==
  IF res # None THEN [queue EXCEPT ![key] = 0] ELSE queue

\* finally { this.generationQueue.delete(cacheKey) }: on success and on failure
QueueAfterGeneration(queue, key, res) == [queue EXCEPT ![key] = 0]

\* the pending sendToAI call of owner c returns; the generation promise settles,
\* the owner persists the record and deletes the queue entry, and every caller
\* awaiting the promise returns its result (last.ret).  outcome: the response parses ("ok"), carries
\* an error ("error") or cannot be parsed ("unparsable").
\* ok = FALSE: the setItem of the save throws QuotaExceededError.
CompleteGenerationCb(c, outcome, actual, ok, cb) ==
  LET call == calls[c]
      key == CacheKey(createTextHash(call.text), call.m)
      res == GenerationResult(call.text, outcome, actual)
      waiters == {w \in CallIds : calls[w].st = "waiting" /\ calls[w].gen = c}
      checkers == {w \in waiters : calls[w].via = "check"}
      lastChecker == CHOOSE w \in checkers : \A v \in checkers : v <= w
      added == IF checkers # {} /\ res # None /\ cb # "throws"
               THEN ApplyAddContext(contexts, res, Cardinality(checkers))
               ELSE contexts
  IN  /\ call.st = "waiting"
      /\ call.own
      /\ storage' = IF res # None THEN saveContextToLocalStorage(res, ok) ELSE storage
      /\ raised' = (raised \/ (res # None /\ WriteErrorEscapes(ok)))
      /\ generationQueue' = QueueAfterGeneration(generationQueue, key, res)
      /\ calls' = [w \in CallIds |->
                     IF w \in waiters \/ (calls[w].st = "done" /\ c \in calls[w].seen)
                     THEN FreeCall ELSE calls[w]]
      /\ IF checkers # {} /\ res # None /\ cb # "throws"
         THEN /\ contexts' = added
              /\ savePending' = TRUE
              /\ saves' = 0
              /\ cleanups' = 0
              /\ UNCHANGED isLoaded
         ELSE UNCHANGED hookVars
      /\ previousContent' = IF checkers # {} THEN calls[lastChecker].text
                            ELSE previousContent
      /\ currentContext' = IF checkers # {} /\ res # None /\ cb # "throws" THEN res
                           ELSE currentContext
      /\ persistedAt' = [h \in Hashes |->
                           IF h = createTextHash(call.text) /\ res # None /\ ok THEN now
                           ELSE Forget(contexts, added)[h]]
      /\ last' = [OpBy("completeGeneration", call.text, res, res # None /\ ~ok, outcome, c)
                    EXCEPT !.cbs = IF res # None THEN Cardinality(checkers) ELSE 0,
                           !.cb = IF res # None /\ checkers # {} THEN cb ELSE "-",
                           !.checked = IF checkers # {} THEN CheckReturn(res, cb) ELSE None]
      /\ UNCHANGED <<probe, enabled, now, defaultModel, timers, contextUpdateTimer, triggers,
                     lastTrigger, sessions>>

\* the pending request returns to callers whose callback, if any, is the
\* editor's
CompleteGeneration(c, outcome, actual, ok) == CompleteGenerationCb(c, outcome, actual, ok, "adds")

\* getContextForText(textHash)
GetContextForText(h, ok) ==
  LET stored == getContextFromLocalStorage(h)
  IN  /\ isLoaded
      /\ IF stored # None /\ isCacheValid(stored)
         THEN LET hit == [stored EXCEPT !.lu = now, !.u = Incr(stored.u)]
              IN  /\ stored.u < MaxUsage
                  /\ storage' = saveContextToLocalStorage(hit, ok)
                  /\ raised' = (raised \/ WriteErrorEscapes(ok))
                  /\ last' = Op("getContextForText", [hash |-> h], hit, ~ok, "hit")
         ELSE /\ last' = Op("getContextForText", [hash |-> h], None, FALSE, "miss")
              /\ UNCHANGED <<storage, raised>>
      /\ UNCHANGED <<probe, enabled, now, hookVars, serviceVars, editorVars, sessions, persistedAt>>

(***************************************************************************)
(* Editor (TextEditor.handleContextUpdate).  The closures of a render see  *)
(* the state of that render; React re-renders between two editor events,   *)
(* so a trigger reads the current contextUpdateTimer and previousContent,  *)
(* while a pending timer keeps the values captured when it was set.        *)
(***************************************************************************)
\* the load-models effect sets defaultModel
LoadModels(m) ==
  /\ isLoaded
  /\ defaultModel = NoModel
  /\ defaultModel' = m
  /\ last' = Op("loadModels", None, None, FALSE, "-")
  /\ UNCHANGED <<probe, enabled, now, storage, hookVars, serviceVars, previousContent,
                 currentContext, timers, contextUpdateTimer, triggers, lastTrigger,
                 sessions, raised, persistedAt>>

\* handleContextUpdate(newContent), called by the editor's onUpdate
HandleContextUpdate(newContent) ==
  /\ isLoaded
  /\ triggers < MaxTriggers
  /\ triggers' = triggers + 1
  /\ lastTrigger' = newContent
  /\ IF defaultModel = NoModel \/ newContent = Blank
     THEN /\ UNCHANGED <<timers, contextUpdateTimer>>
          /\ last' = Op("handleContextUpdate", newContent, None, FALSE, "ignored")
     ELSE /\ timers' = {t \in timers : t.id # contextUpdateTimer}
                         \cup {[id |-> triggers + 1, text |-> newContent,
                                prev |-> previousContent, m |-> defaultModel]}
          /\ contextUpdateTimer' = triggers + 1
          /\ last' = Op("handleContextUpdate", newContent, None, FALSE, "scheduled")
  /\ UNCHANGED <<probe, enabled, now, storage, hookVars, serviceVars, defaultModel,
                 previousContent, currentContext, sessions, raised, persistedAt>>

\* a timer set by handleContextUpdate fires: checkAndUpdateContext(t.text, t.prev,
\* t.m, callback), then setPreviousContent(t.text) once the call has returned
TimerFiresCb(t, ok, cb) ==
  /\ t \in timers
  /\ timers' = timers \ {t}
  /\ IF ~enabled \/ t.text = t.prev \/ SimilarAtLeastThreshold(t.text, t.prev)
     THEN /\ previousContent' = t.text
          /\ last' = Op("checkAndUpdateContext", t.text, None, FALSE,
                        IF ~enabled THEN "disabled"
                        ELSE IF t.text = t.prev THEN "identical" ELSE "similar")
          /\ UNCHANGED <<storage, hookVars, serviceVars, raised, persistedAt, currentContext>>
     ELSE StartGenerateCb("checkAndUpdateContext", t.text, t.m, "check", ok, cb)
  /\ UNCHANGED <<probe, enabled, now, defaultModel, contextUpdateTimer, triggers, lastTrigger, sessions>>

\* the editor's timer, whose callback is addContext
TimerFires(t, ok) == TimerFiresCb(t, ok, "adds")

\* updateConfig({ enabled: e })
UpdateConfig(e) ==
  /\ enabled # e
  /\ enabled' = e
  /\ last' = Op("updateConfig", None, None, FALSE, "-")
  /\ UNCHANGED <<probe, now, storage, hookVars, serviceVars, editorVars, sessions,
                 raised, persistedAt>>

\* the page is loaded again: in-memory state is lost, localStorage is kept
Reload ==
  /\ sessions < MaxSessions
  /\ sessions' = sessions + 1
  /\ contexts' = <<>>
  /\ isLoaded' = FALSE
  /\ savePending' = FALSE
  /\ saves' = 0
  /\ cleanups' = 0
  /\ generationQueue' = [k \in QueueKeys |-> 0]
  /\ calls' = [c \in CallIds |-> FreeCall]
  /\ defaultModel' = NoModel
  /\ previousContent' = Blank
  /\ currentContext' = None
  /\ timers' = {}
  /\ contextUpdateTimer' = 0
  /\ triggers' = 0
  /\ lastTrigger' = Blank
  /\ last' = Op("reload", None, None, FALSE, "-")
  /\ enabled' = TRUE
  /\ UNCHANGED <<probe, now, storage, raised, persistedAt>>

(***************************************************************************)
(* Specification.                                                          *)
(***************************************************************************)
\* no pure function is being applied
Idle == [fn |-> "-"]

InitProgram ==
  /\ now = 0
  /\ enabled = TRUE
  /\ storage = None
  /\ contexts = <<>>
  /\ isLoaded = FALSE
  /\ savePending = FALSE
  /\ saves = 0
  /\ cleanups = 0
  /\ generationQueue = [k \in QueueKeys |-> 0]
  /\ calls = [c \in CallIds |-> FreeCall]
  /\ defaultModel = NoModel
  /\ previousContent = Blank
  /\ currentContext = None
  /\ timers = {}
  /\ contextUpdateTimer = 0
  /\ triggers = 0
  /\ lastTrigger = Blank
  /\ sessions = 1
  /\ raised = FALSE
  /\ persistedAt = [h \in Hashes |-> Undef]
  /\ last = Op("init", None, None, FALSE, "-")

Init == InitProgram /\ probe = Idle

Next ==
  \/ Tick
  \/ LoadStorage
  \/ \E ok \in BOOLEAN : SaveEffect(ok)
  \/ \E h \in Hashes : GetContext(h)
  \/ \E text \in Texts, m \in Models, ok \in BOOLEAN : GenerateContextForText(text, m, ok)
  \/ \E c \in CallIds, outcome \in {"ok", "error", "unparsable"}, actual \in Models,
        ok \in BOOLEAN : CompleteGeneration(c, outcome, actual, ok)
  \/ \E h \in Hashes, ok \in BOOLEAN : GetContextForText(h, ok)
  \/ \E m \in Models : LoadModels(m)
  \/ \E text \in Texts \cup {Blank} : HandleContextUpdate(text)
  \/ \E t \in timers, ok \in BOOLEAN : TimerFires(t, ok)
  \/ \E e \in BOOLEAN : UpdateConfig(e)
  \/ Reload

Spec == Init /\ [][Next]_vars

\* the inputs the guards of generateContextForText tell apart
GuardTexts == {Blank, OneChar, [norm |-> 1, large |-> FALSE]}

\* the service asked by any component, with valid and invalid inputs, enabled
\* or disabled
NextGuards ==
  \/ Tick
  \/ LoadStorage
  \/ \E e \in BOOLEAN : UpdateConfig(e)
  \/ \E text \in GuardTexts, m \in {"m1", NoModel}, ok \in BOOLEAN :
        GenerateContextForText(text, m, ok)
  \/ \E c \in CallIds, outcome \in {"ok", "error", "unparsable"}, ok \in BOOLEAN :
        CompleteGeneration(c, outcome, calls[c].m, ok)

SpecGuards == Init /\ [][NextGuards]_vars

\* the records the service hands to addContext: generated at some time up to
\* now and still valid
PutInputs ==
  {Rec(h, 1, "m1", ts, ts, 0, FALSE, 2) :
     h \in Hashes, ts \in {t \in 0..now : now - t < contextExpiryMs}}

\* texts whose raw length is within maxTextLength
PlainTexts == {t \in Texts : ~t.large}

\* the raw texts that share the first normalized form
VariantTexts == {t \in Texts : t.norm = 1}

\* the hook-level store on its own, with the service's reads of the same
\* storage key
NextStore ==
  \/ Tick
  \/ LoadStorage
  \/ \E ok \in BOOLEAN : SaveEffect(ok)
  \/ \E context \in PutInputs : AddContext(context)
  \/ \E h \in Hashes : GetContext(h)
  \/ \E h \in Hashes, ok \in BOOLEAN : GetContextForText(h, ok)
  \/ Reload

SpecStore == Init /\ [][NextStore]_vars

\* the partial records passed to updateContext: the fields ContextViewer
\* edits (description, tone and intent as one value, and keyArguments), and a
\* Partial<TextContext> that names timestamp and usageCount
UpdateInputs == {[d |-> 2, ka |-> TRUE], [ts |-> 0, u |-> 0]}

\* the hook's collection in memory under addContext, getContext and
\* updateContext
NextUpdate ==
  \/ Tick
  \/ LoadStorage
  \/ \E context \in PutInputs : AddContext(context)
  \/ \E h \in Hashes : GetContext(h)
  \/ \E h \in Hashes, updates \in UpdateInputs : UpdateContext(h, updates)

SpecUpdate == Init /\ [][NextUpdate]_vars

\* page loads over a storage key written by both writers: the hook's save
\* effect (compressed format) and the service's save of generated records
NextLoad ==
  \/ LoadStorage
  \/ \E ok \in BOOLEAN : SaveEffect(ok)
  \/ \E text \in PlainTexts, ok \in BOOLEAN : GenerateContextForText(text, "m1", ok)
  \/ \E c \in CallIds, outcome \in {"ok", "error"}, ok \in BOOLEAN :
        CompleteGeneration(c, outcome, calls[c].m, ok)
  \/ Reload

SpecLoad == Init /\ [][NextLoad]_vars

\* calculateJaccardSimilarity applied to a pair of texts, in both orders and
\* to the first text with itself
InitJaccard ==
  /\ InitProgram
  /\ probe \in [fn : {"texts"}, text1 : WordTexts, text2 : WordTexts]

ApplyJaccard ==
  /\ probe.fn = "texts"
  /\ probe' = [fn |-> "calculateJaccardSimilarity",
               text1 |-> probe.text1,
               text2 |-> probe.text2,
               forward |-> calculateJaccardSimilarity(probe.text1, probe.text2),
               backward |-> calculateJaccardSimilarity(probe.text2, probe.text1),
               self |-> calculateJaccardSimilarity(probe.text1, probe.text1)]
  /\ UNCHANGED <<enabled, now, storage, hookVars, serviceVars, editorVars, sessions, raised,
                 persistedAt, last>>

NextJaccard == ApplyJaccard

SpecJaccard == InitJaccard /\ [][NextJaccard]_vars

(***************************************************************************)
(* Prompt building (enhanced-prompt-builder).  A description is known by   *)
(* what the builders test: "none" undefined, "blank" whitespace only,       *)
(* "short" 1 to 19 characters, "long" 20 characters or more.  A prompt is   *)
(* returned as its base text, the parts of its BACKGROUND CONTEXT block and *)
(* the characteristics of its Note line; both empty: the base text alone.   *)
(***************************************************************************)
Descriptions == {"none", "blank", "short", "long"}
Tones == {"", "neutral", "general", "formal"}
Intents == {"", "general purpose text", "documentation"}
PromptContexts == [description : Descriptions, tone : Tones, intent : Intents]
Prompts == {"", "custom prompt"}
Actions == {"expand", "condense", "reword"}

Prompt(base, block, note) == [base |-> base, block |-> block, note |-> note]

\* formatContextForPrompt: the parts joined by ' | '
formatContextForPrompt(context) ==
  (IF context.description \in {"short", "long"} THEN <<"Context">> ELSE <<>>)
  \o (IF context.tone \notin {"", "neutral", "general"} THEN <<"Tone">> ELSE <<>>)
  \o (IF context.intent \notin {"", "general purpose text"} THEN <<"Purpose">> ELSE <<>>)

\* buildContextAwarePrompt(originalPrompt, _text, context)
buildContextAwarePrompt(originalPrompt, context) ==
  IF originalPrompt = "" THEN Prompt("", <<>>, <<>>)
  ELSE IF context = None THEN Prompt(originalPrompt, <<>>, <<>>)
  ELSE IF formatContextForPrompt(context) = <<>> THEN Prompt(originalPrompt, <<>>, <<>>)
  ELSE Prompt(originalPrompt, formatContextForPrompt(context), <<>>)

\* the base prompt of an action with no options: a fixed sentence per action
basePrompt(action) == action

\* generateContextAwareActionPrompt(action, options, context)
generateContextAwareActionPrompt(action, context) ==
  buildContextAwarePrompt(basePrompt(action), context)

\* createContextSummary(context): no tone of the example values contains an
\* intent, and the summary stays below maxLength
createContextSummary(context) ==
  IF context = None THEN <<>>
  ELSE (IF context.tone \notin {"", "neutral"} THEN <<context.tone>> ELSE <<>>)
       \o (IF context.intent # "" THEN <<context.intent>> ELSE <<>>)

\* isContextSuitableForPrompts(context)
isContextSuitableForPrompts(context) ==
  IF context = None THEN FALSE
  ELSE IF context.description # "long" THEN FALSE
  ELSE IF context.tone = "neutral" /\ context.intent = "general purpose text" THEN FALSE
  ELSE TRUE

\* enhanceCustomPrompt(userPrompt, context)
enhanceCustomPrompt(userPrompt, context) ==
  IF userPrompt = "" \/ ~isContextSuitableForPrompts(context) THEN Prompt(userPrompt, <<>>, <<>>)
  ELSE IF createContextSummary(context) = <<>> THEN Prompt(userPrompt, <<>>, <<>>)
  ELSE Prompt(userPrompt, <<>>, createContextSummary(context))

\* the three entry points applied to a prompt, an action and a record or null
InitPrompt ==
  /\ InitProgram
  /\ probe \in [fn : {"prompt"}, originalPrompt : Prompts, action : Actions,
                 context : PromptContexts \cup {None}]

ApplyPromptBuilders ==
  /\ probe.fn = "prompt"
  /\ probe' = [fn |-> "built",
               originalPrompt |-> probe.originalPrompt,
               action |-> probe.action,
               context |-> probe.context,
               built |-> buildContextAwarePrompt(probe.originalPrompt, probe.context),
               forAction |-> generateContextAwareActionPrompt(probe.action, probe.context),
               custom |-> enhanceCustomPrompt(probe.originalPrompt, probe.context)]
  /\ UNCHANGED <<enabled, now, storage, hookVars, serviceVars, editorVars, sessions, raised,
                 persistedAt, last>>

NextPrompt == ApplyPromptBuilders

SpecPrompt == InitPrompt /\ [][NextPrompt]_vars

(***************************************************************************)
(* normalizeText and createTextHash character by character.  A raw text is *)
(* a sequence over an alphabet with an uppercase letter, two lowercase      *)
(* letters, a space and a character outside [\w\s.,!?;:'-].                 *)
(***************************************************************************)
MaxChars == 3
Alphabet == {"A", "a", "b", " ", "#"}
CharTexts == UNION {[1..n -> Alphabet] : n \in 0..MaxChars}

\* toLowerCase
LowerCase(text) == [i \in DOMAIN text |-> IF text[i] = "A" THEN "a" ELSE text[i]]

RECURSIVE TrimStart(_)
TrimStart(text) ==
  IF text # <<>> /\ Head(text) = " " THEN TrimStart(Tail(text)) ELSE text

RECURSIVE TrimEnd(_)
TrimEnd(text) ==
  IF text # <<>> /\ text[Len(text)] = " "
  THEN TrimEnd(SubSeq(text, 1, Len(text) - 1))
  ELSE text

\* trim()
Trim(text) == TrimEnd(TrimStart(text))

RECURSIVE CollapseSpaces(_)
\* replace(/\s+/g, ' ')
CollapseSpaces(text) ==
  IF Len(text) < 2 THEN text
  ELSE IF text[1] = " " /\ text[2] = " " THEN CollapseSpaces(Tail(text))
  ELSE <<text[1]>> \o CollapseSpaces(Tail(text))

\* replace(/[^\w\s.,!?;:'-]/g, ' ')
ReplaceSpecial(text) == [i \in DOMAIN text |-> IF text[i] = "#" THEN " " ELSE text[i]]

\* normalizeText(text)
normalizeText(text) ==
  Trim(CollapseSpaces(ReplaceSpecial(CollapseSpaces(Trim(LowerCase(text))))))

\* charCodeAt
CharCode(c) ==
  CASE c = " " -> 32
    [] c = "#" -> 35
    [] c = "A" -> 65
    [] c = "a" -> 97
    [] OTHER -> 98

\* hash & hash: the value as a 32-bit signed integer.  The hash of a
\* normalized text of n characters is below 128 * 31^(n-1) * 32/31, so for the
\* texts of this alphabet up to five characters it is within 32 bits and the
\* conversion leaves it as it is.
ToInt32(x) == x

RECURSIVE HashLoop(_, _, _)
\* the loop of createTextHash from index i on
HashLoop(normalized, i, hash) ==
  IF i > Len(normalized) THEN hash
  ELSE HashLoop(normalized, i + 1,
                ToInt32(ToInt32(ToInt32(hash * 32) - hash) + CharCode(normalized[i])))

\* the strings createTextHash returns: '' and the base-36 digits of a number
HashString(kind, n) == [kind |-> kind, n |-> n]

\* createTextHash(text) on a raw text
createTextHashOfChars(text) ==
  IF text = <<>> THEN HashString("empty", 0)
  ELSE LET hash == HashLoop(normalizeText(text), 1, 0)
       IN  HashString("base36", IF hash < 0 THEN -hash ELSE hash)

\* createTextHash applied to a pair of raw texts
InitHash ==
  /\ InitProgram
  /\ probe \in [fn : {"chars"}, text1 : CharTexts, text2 : CharTexts]

ApplyHash ==
  /\ probe.fn = "chars"
  /\ probe' = [fn |-> "createTextHash",
               text1 |-> probe.text1,
               text2 |-> probe.text2,
               normalized1 |-> normalizeText(probe.text1),
               normalized2 |-> normalizeText(probe.text2),
               hash1 |-> createTextHashOfChars(probe.text1),
               hash2 |-> createTextHashOfChars(probe.text2)]
  /\ UNCHANGED <<enabled, now, storage, hookVars, serviceVars, editorVars, sessions, raised,
                 persistedAt, last>>

NextHash == ApplyHash

SpecHash == InitHash /\ [][NextHash]_vars

\* checkAndUpdateContext driven by debounced triggers, with a caller-supplied
\* callback that may throw
NextCallback ==
  \/ LoadStorage
  \/ \E m \in Models : LoadModels(m)
  \/ \E text \in PlainTexts \cup {Blank} : HandleContextUpdate(text)
  \/ \E t \in timers, ok \in BOOLEAN, cb \in Callbacks : TimerFiresCb(t, ok, cb)
  \/ \E c \in CallIds, outcome \in {"ok", "error"}, ok \in BOOLEAN, cb \in Callbacks :
        CompleteGenerationCb(c, outcome, calls[c].m, ok, cb)

SpecCallback == Init /\ [][NextCallback]_vars

\* the coordinator with a summarizer that may never answer: the return of a
\* sendToAI request (CompleteGeneration) is the summarizer's step and is not
\* guaranteed; the passing of time is
NextHang ==
  \/ Tick
  \/ LoadStorage
  \/ \E text \in VariantTexts, m \in Models, ok \in BOOLEAN :
        GenerateContextForText(text, m, ok)
  \/ \E c \in CallIds, outcome \in {"ok", "error"}, ok \in BOOLEAN :
        CompleteGeneration(c, outcome, calls[c].m, ok)

\* the step of Tick as far as the clock is concerned
ClockAdvances == now < MaxTime /\ now' = now + 1

SpecHang == Init /\ [][NextHang]_vars /\ WF_now(ClockAdvances)

\* the sendToAI request of call c returns, with a response or with an error
Responds(c) ==
  \E outcome \in {"ok", "error"}, ok \in BOOLEAN :
    CompleteGeneration(c, outcome, calls[c].m, ok)

\* the coordinator with a summarizer that answers every request
SpecAnswered ==
  /\ Init
  /\ [][NextHang]_vars
  /\ WF_now(ClockAdvances)
  /\ \A c \in CallIds : WF_vars(Responds(c))

(***************************************************************************)
(* parseContextResponse.  A response is known by what JSON.parse makes of   *)
(* it (not JSON, an object with description, tone and intent, or an object  *)
(* lacking one of them), by its length class and by the tone word the       *)
(* heuristic finds in it.                                                   *)
(***************************************************************************)
JsonKinds == {"invalid", "complete", "noDescription", "noTone", "noIntent"}
LengthClasses == {"below20", "upTo150", "above150"}
ToneWords == {"none", "formal", "casual", "technical"}

\* an object with the three fields is 20 characters or longer
Responses ==
  {r \in [json : JsonKinds, length : LengthClasses, word : ToneWords] :
     r.json = "complete" => r.length # "below20"}

\* extractContextFromFreeText(response)
extractContextFromFreeText(response) ==
  IF response.length = "below20" THEN None
  ELSE [description |-> IF response.length = "above150" THEN "first 150 characters..."
                        ELSE "whole response",
        tone |-> IF response.word = "none" THEN "neutral" ELSE response.word,
        intent |-> "general purpose text"]

\* parseContextResponse(response, model): the fallback is in the catch of
\* JSON.parse; an object that lacks a required field returns null from the try
parseContextResponse(response) ==
  IF response.json = "invalid" THEN extractContextFromFreeText(response)
  ELSE IF response.json # "complete" THEN None
  ELSE [description |-> "parsed", tone |-> "parsed", intent |-> "parsed"]

InitParse ==
  /\ InitProgram
  /\ probe \in [fn : {"response"}, response : Responses]

ApplyParse ==
  /\ probe.fn = "response"
  /\ probe' = [fn |-> "parseContextResponse",
               response |-> probe.response,
               parsed |-> parseContextResponse(probe.response)]
  /\ UNCHANGED <<enabled, now, storage, hookVars, serviceVars, editorVars, sessions, raised,
                 persistedAt, last>>

NextParse == ApplyParse

SpecParse == InitParse /\ [][NextParse]_vars

\* the two put paths of the store: the hook's addContext with its save effect,
\* and the service's save of what it generates for plain texts with one model
NextPuts ==
  \/ LoadStorage
  \/ \E ok \in BOOLEAN : SaveEffect(ok)
  \/ \E context \in PutInputs : AddContext(context)
  \/ \E text \in PlainTexts, ok \in BOOLEAN : GenerateContextForText(text, "m1", ok)
  \/ \E c \in CallIds, outcome \in {"ok", "error", "unparsable"}, ok \in BOOLEAN :
        CompleteGeneration(c, outcome, calls[c].m, ok)

SpecPuts == Init /\ [][NextPuts]_vars

\* the generation coordinator with the hook's load and save effects, asked
\* concurrently for the variants of one text with either model
NextService ==
  \/ Tick
  \/ LoadStorage
  \/ \E ok \in BOOLEAN : SaveEffect(ok)
  \/ \E text \in VariantTexts, m \in Models, ok \in BOOLEAN :
        GenerateContextForText(text, m, ok)
  \/ \E c \in CallIds, outcome \in {"ok", "error", "throws", "unparsable"},
        actual \in Models, ok \in BOOLEAN : CompleteGeneration(c, outcome, actual, ok)
  \/ \E h \in Hashes, ok \in BOOLEAN : GetContextForText(h, ok)

SpecService == Init /\ [][NextService]_vars

\* the editor's debounced trigger driving the coordinator and the store
NextEditor ==
  \/ LoadStorage
  \/ \E ok \in BOOLEAN : SaveEffect(ok)
  \/ \E m \in Models : LoadModels(m)
  \/ \E text \in PlainTexts \cup {Blank} : HandleContextUpdate(text)
  \/ \E t \in timers, ok \in BOOLEAN : TimerFires(t, ok)
  \/ \E c \in CallIds, outcome \in {"ok", "error", "unparsable"}, ok \in BOOLEAN :
        CompleteGeneration(c, outcome, calls[c].m, ok)

SpecEditor == Init /\ [][NextEditor]_vars

(***************************************************************************)
(* Properties of the generation coordinator.                               *)
(***************************************************************************)
\* calls with a pending sendToAI request of their own
Owners == {c \in CallIds : calls[c].st = "waiting" /\ calls[c].own}

\* C1: callers of generateContextForText with the same text and the same model,
\* issued while the sendToAI request for that text is pending, all receive the
\* same outcome: when the request of owner c returns, every call that has
\* already returned while c was pending returned what c's callers now receive.
C1_SameOutcomeForCoalescedCallers ==
  [][\A c \in Owners :
       calls'[c].st = "free" =>
         \A w \in CallIds :
           (calls[w].st = "done" /\ c \in calls[w].seen) => calls[w].res = last'.ret]_vars

\* C1: a call for the same text and model returned a stored record while the
\* owner's request was still pending
C1_ReturnedWhilePending ==
  \E w \in CallIds : calls[w].st = "done" /\ calls[w].seen \cap Owners # {}

\* C2: at most one generation is in flight for a text fingerprint, whatever the
\* model and whichever of the normal and large-text paths the calls take.
C2_OneInFlightPerFingerprint ==
  \A a, b \in Owners :
    createTextHash(calls[a].text) = createTextHash(calls[b].text) => a = b

\* C3: when the stored record for createTextHash(text) is younger than
\* contextExpiryMs, generateContextForText(text, model) returns that record with
\* lastUsed = now and usageCount + 1, starts no sendToAI request and leaves
\* generationQueue as it was.
C3_CacheHitPath ==
  [][LET text == last'.arg
         stored == getContextFromLocalStorage(createTextHash(text))
     IN  (/\ last'.op = "generateContextForText"
          /\ stored # None
          /\ stored.ts # NaN
          /\ now - stored.ts < contextExpiryMs)
         => /\ last'.how = "hit"
            /\ last'.ret = [stored EXCEPT !.lu = now, !.u = stored.u + 1]
            /\ generationQueue' = generationQueue
            /\ \A c \in CallIds : ~(calls'[c].st = "waiting" /\ calls[c].st # "waiting")]_vars

\* C3: a call was served from a stored record while a request for another
\* model was pending, and the record it returned carries the usage update
C3_HitServed ==
  /\ last.op = "generateContextForText"
  /\ last.how = "hit"
  /\ last.ret.u = 1
  /\ last.ret.lu = 1
  /\ last.ret.ts = 0
  /\ Owners # {}

(***************************************************************************)
(* Properties of persistence across the two writers of the storage key.    *)
(***************************************************************************)
\* C4: once the record generated for a text has been persisted, and while it is
\* younger than contextExpiryMs and the hook has not evicted it, no
\* generateContextForText for that text starts a new sendToAI request and every
\* getContextForText for it returns a record; this includes the time after the
\* editor's callback has handed the record to addContext and the save effect
\* has written the storage key again.
C4_RegeneratedAtMostOnce ==
  [][\A h \in Hashes :
       (persistedAt[h] # Undef /\ now - persistedAt[h] < contextExpiryMs) =>
         /\ \A c \in CallIds :
              (calls[c].st # "waiting" /\ calls'[c].st = "waiting" /\ calls'[c].own)
                => createTextHash(calls'[c].text) # h
         /\ (last'.op = "getContextForText" /\ last'.arg = [hash |-> h]) => last'.how = "hit"]_vars

(***************************************************************************)
(* Properties of the record store.                                         *)
(***************************************************************************)
\* C5: after any sequence of puts (addContext, saveContextToLocalStorage) the
\* in-memory collection and the collection persisted under the storage key
\* each hold at most maxContexts records.
C5_CountWithinMaxContexts ==
  /\ Len(contexts) <= maxContexts
  /\ storage # None => Len(storage.contexts) <= maxContexts

\* C6: when addContext makes the count exceed maxContexts and the records have
\* pairwise distinct (lastUsed, usageCount) pairs of valid values, exactly
\* maxContexts records are retained, each unmodified, and every removed record
\* is smaller than every retained record in the ascending lexicographic order
\* on (lastUsed, usageCount).
C6_EvictionKeepsGreatest ==
  [][LET h0 == last'.arg.hash
         K == Keys(contexts) \cup {h0}
         lu(h) == IF h = h0 THEN now ELSE contexts[IndexOf(contexts, h)].lu
         u(h) == IF h = h0 THEN 0 ELSE contexts[IndexOf(contexts, h)].u
         Less(a, b) == lu(a) < lu(b) \/ (lu(a) = lu(b) /\ u(a) < u(b))
     IN  (/\ last'.op = "addContext"
          /\ Cardinality(K) > maxContexts
          /\ \A a \in K : lu(a) # NaN /\ u(a) # Undef
          /\ \A a, b \in K : a # b => <<lu(a), u(a)>> # <<lu(b), u(b)>>)
         => /\ Len(contexts') = maxContexts
            /\ Keys(contexts') \subseteq K
            /\ \A r \in K \ Keys(contexts'), k \in Keys(contexts') : Less(r, k)
            /\ \A k \in Keys(contexts') :
                 LET kept == contexts'[IndexOf(contexts', k)]
                 IN  IF k = h0 THEN kept.lu = now /\ kept.u = 0
                     ELSE kept = contexts[IndexOf(contexts, k)]]_vars

\* C6: addContext has just evicted, and the retained records were used at the
\* same time and differ in usageCount
C6_EvictedByUsage ==
  /\ last.op = "addContext"
  /\ last.how = "evicted"
  /\ Len(contexts) = maxContexts
  /\ \E a, b \in Range(contexts) : a.lu = b.lu /\ a.u = 0 /\ b.u = 1

\* C7: a get for a fingerprint whose record is contextExpiryMs old or older
\* returns absent and leaves the record as it is, in the hook's getContext and
\* in the service's getContextForText alike.
C7_ExpiredGetIsAbsent ==
  [][\A h \in Hashes :
       /\ (/\ last'.op = "getContext"
            /\ last'.arg = [hash |-> h]
            /\ HasKey(contexts, h)
            /\ contexts[IndexOf(contexts, h)].ts # NaN
            /\ now - contexts[IndexOf(contexts, h)].ts >= contextExpiryMs)
           => (last'.ret = None /\ contexts' = contexts)
       /\ (/\ last'.op = "getContextForText"
            /\ last'.arg = [hash |-> h]
            /\ getContextFromLocalStorage(h) # None
            /\ getContextFromLocalStorage(h).ts # NaN
            /\ now - getContextFromLocalStorage(h).ts >= contextExpiryMs)
           => (last'.ret = None /\ storage' = storage)]_vars

(***************************************************************************)
(* Properties of the editor's debounce.                                    *)
(***************************************************************************)
\* C8: the checkAndUpdateContext call that results from the triggers of one
\* debounce window is made with the text of the latest trigger that reached
\* handleContextUpdate.
C8_ChecksLatestTrigger ==
  last.op = "checkAndUpdateContext" => last.arg = lastTrigger

(***************************************************************************)
(* Properties of the quota handling.                                       *)
(***************************************************************************)
\* C9: a write that fails with QuotaExceededError during a put raises nothing
\* to the caller, leaves the storage key as it was and leaves in memory only
\* records held before or the record being put, each unmodified.
C9_QuotaFailureIsContained ==
  [][last'.failed =>
       /\ ~raised'
       /\ storage' = storage
       /\ Range(contexts') \subseteq
            Range(contexts) \cup (IF last'.ret = None THEN {}
                                  ELSE {[last'.ret EXCEPT !.lu = now, !.u = 0]})]_vars

\* C9: the write of two records has just failed, the emergency cleanup has
\* dropped one of them and kept the other, and no error was raised
C9_FailedWriteSurvived ==
  /\ last.op = "saveEffect"
  /\ last.failed
  /\ last.arg = [count |-> 2]
  /\ cleanups = 1
  /\ Len(contexts) = 1
  /\ ~raised

\* C10: after a put, a failed persist is followed by one emergency eviction and
\* one retry; if the retry fails there is no further eviction and no further
\* persist attempt for that put.
C10_SingleRetry ==
  cleanups <= 1 /\ saves <= 2

(***************************************************************************)
(* Properties of the change detection.                                     *)
(***************************************************************************)
\* C11: checkAndUpdateContext(currentText, previousText, model, onUpdate) with
\* currentText = previousText, or with a Jaccard similarity of at least
\* updateThreshold (4/5, equality included), returns absent, starts no sendToAI
\* request, does not call onUpdate (the hook's collection is unchanged) and
\* leaves the storage key and generationQueue unchanged.
C11_InsignificantChangeIsNoOp ==
  [][\A t \in timers :
       LET A == Tokens(t.text)
           B == Tokens(t.prev)
           similar == IF A = {} \/ B = {} THEN A = B
                      ELSE 5 * Cardinality(A \cap B) >= 4 * Cardinality(A \cup B)
       IN  (/\ t \notin timers'
            /\ last'.op = "checkAndUpdateContext"
            /\ (t.text = t.prev \/ similar))
           => /\ last'.ret = None
              /\ calls' = calls
              /\ generationQueue' = generationQueue
              /\ contexts' = contexts
              /\ storage' = storage]_vars

\* C11: a check has just been skipped for a text that differs from the previous
\* one and whose similarity to it is exactly the threshold
C11_SkippedAtThreshold ==
  /\ last.op = "checkAndUpdateContext"
  /\ last.how = "similar"
  /\ Tokens(last.arg) = {"w1", "w2", "w3", "w4", "w5"}

(***************************************************************************)
(* Properties of the guards of generateContextForText.                     *)
(***************************************************************************)
\* C12: generateContextForText returns absent and has no side effect (no
\* sendToAI request, no usage update, no write of the storage key, no
\* generationQueue entry) when the service is disabled, the text is empty, the
\* text is below the minimum length, or no model is supplied.  A text of one
\* character is below every minimum length that rejects a non-empty text.
C12_RejectedWithoutSideEffects ==
  [][\A text \in GuardTexts, m \in {"m1", NoModel}, ok \in BOOLEAN :
       (/\ last'.op = "generateContextForText"
        /\ GenerateContextForText(text, m, ok)
        /\ (~enabled \/ text = Blank \/ Length(text) < 2 \/ m = NoModel))
       => /\ last'.ret = None
          /\ calls' = calls
          /\ generationQueue' = generationQueue
          /\ storage' = storage]_vars

(***************************************************************************)
(* Properties of failed and large-text generations.                        *)
(***************************************************************************)
\* C13: when sendToAI reports an error, throws, or returns a response from which
\* no record can be parsed, the callers of generateContextForText receive absent,
\* nothing is raised, and the storage key and the hook's collection hold exactly
\* what they held before.
C13_FailedGenerationWritesNothing ==
  [][\A c \in Owners :
       (/\ calls'[c].st = "free"
        /\ last'.op = "completeGeneration"
        /\ last'.how \in {"error", "throws", "unparsable"})
       => /\ last'.ret = None
          /\ ~raised'
          /\ storage' = storage
          /\ contexts' = contexts]_vars

\* C13: a generation has just failed on an unparsable response while the
\* storage key held a record
C13_FailedWithRecordStored ==
  /\ last.op = "completeGeneration"
  /\ last.how = "unparsable"
  /\ storage # None
  /\ Len(storage.contexts) > 0

\* C14: the record of a successful generation for a text longer than
\* maxTextLength is stored under createTextHash of the original text with
\* textLength the original length, although sendToAI was given the truncated
\* text; and generateContextForText for a large text whose stored record is
\* valid returns that record and starts no sendToAI request.
C14_LargeTextKeyedByOriginal ==
  [][/\ \A c \in Owners :
          (/\ calls'[c].st = "free"
           /\ calls[c].text.large
           /\ last'.op = "completeGeneration"
           /\ last'.how = "ok")
          => /\ calls[c].sent # calls[c].text
             /\ calls[c].sent = smartTruncateText(calls[c].text)
             /\ last'.ret.h = createTextHash(calls[c].text)
             /\ last'.ret.l = Length(calls[c].text)
             /\ ~last'.failed =>
                  /\ storage' # None
                  /\ HasKey(storage'.contexts, createTextHash(calls[c].text))
                  /\ storage'.contexts[IndexOf(storage'.contexts,
                                                createTextHash(calls[c].text))].rec = last'.ret
     /\ LET text == last'.arg
            stored == getContextFromLocalStorage(createTextHash(text))
        IN  (/\ last'.op = "generateContextForText"
             /\ text.large
             /\ stored # None
             /\ stored.ts # NaN
             /\ now - stored.ts < contextExpiryMs)
            => /\ last'.how = "hit"
               /\ last'.ret.h = createTextHash(text)
               /\ \A c \in CallIds : ~(calls'[c].st = "waiting" /\ calls[c].st # "waiting")]_vars

\* C14: a call for a large text has just been served from the record generated
\* for that text from its truncation
C14_LargeTextHit ==
  /\ last.op = "generateContextForText"
  /\ last.how = "hit"
  /\ last.arg.large
  /\ last.ret.l = Length(last.arg)
  /\ last.ret.d = 2

(***************************************************************************)
(* Properties of the record fields.                                        *)
(***************************************************************************)
\* C15: usageCount only grows while a record stays in the store, and a
\* successful getContext of a present, valid record raises its usageCount by
\* exactly one and sets its lastUsed to the current time.
C15_UsageCountMonotonic ==
  [][/\ \A h \in Keys(contexts) \cap Keys(contexts') :
          LET before == contexts[IndexOf(contexts, h)]
              after == contexts'[IndexOf(contexts', h)]
          IN  (before.u # Undef /\ after.u # Undef) => after.u >= before.u
     /\ \A h \in Keys(contexts) :
          LET before == contexts[IndexOf(contexts, h)]
          IN  (/\ last'.op = "getContext"
               /\ last'.arg = [hash |-> h]
               /\ before.ts # NaN
               /\ before.u # Undef
               /\ now - before.ts < contextExpiryMs)
              => /\ HasKey(contexts', h)
                 /\ contexts'[IndexOf(contexts', h)].u = before.u + 1
                 /\ contexts'[IndexOf(contexts', h)].lu = now]_vars

\* C16: updateContext on a present record changes only its description, tone
\* and intent and refreshes lastUsed; textHash, timestamp, usageCount and every
\* other field keep their values and every other record is unchanged; on an
\* absent fingerprint the store is unchanged.
C16_UpdateChangesOnlyMutableFields ==
  [][last'.op = "updateContext" =>
       IF HasKey(contexts, last'.arg.hash)
       THEN /\ Len(contexts') = Len(contexts)
            /\ \A i \in 1..Len(contexts) :
                 IF contexts[i].h = last'.arg.hash
                 THEN contexts'[i] = [contexts[i] EXCEPT !.d = contexts'[i].d, !.lu = now]
                 ELSE contexts'[i] = contexts[i]
       ELSE contexts' = contexts]_vars

\* an entry that does not have the format the storage metadata declares
Malformed(entry, compressed) == (entry.form = "comp") # compressed

\* C17: a load of persisted data that contains a malformed record discards the
\* data as a whole and the store starts empty; no record of it is loaded.
C17_DamagedDataDiscardedWholesale ==
  [][(/\ last'.op = "loadStorage"
      /\ ~isLoaded
      /\ storage # None
      /\ \E i \in 1..Len(storage.contexts) :
            Malformed(storage.contexts[i], storage.compressed))
     => (contexts' = <<>> /\ storage' = None)]_vars

\* C18: every record the store holds, the coordinator's records included,
\* survives compressContext followed by decompressContext under its own
\* fingerprint: compressContext returns, and the result has the record's
\* textHash and its description.
C18_RoundTripKeepsFingerprint ==
  \A i \in 1..Len(contexts) :
    /\ ~CompressThrows(contexts[i])
    /\ decompressContext(compressContext(contexts[i])).h = contexts[i].h
    /\ decompressContext(compressContext(contexts[i])).d = contexts[i].d

(***************************************************************************)
(* Properties of the similarity measure.                                   *)
(***************************************************************************)
\* C19: calculateJaccardSimilarity is reflexive (1 for a text with itself),
\* symmetric, and within [0, 1]; it is 1 when both token sets are empty, 0 when
\* exactly one is empty, and otherwise the size of the intersection over the
\* size of the union of the stop-word-filtered token sets.
C19_JaccardProperties ==
  probe.fn = "calculateJaccardSimilarity" =>
    LET A == tokenizeText(probe.text1)
        B == tokenizeText(probe.text2)
        r == probe.forward
    IN  /\ probe.self = Ratio(1, 1)
        /\ probe.backward = probe.forward
        /\ r.den > 0 /\ 0 <= r.num /\ r.num <= r.den
        /\ (A = {} /\ B = {}) => r.num = r.den
        /\ ((A = {}) # (B = {})) => r.num = 0
        /\ (A # {} /\ B # {}) =>
              r.num * Cardinality(A \cup B) = r.den * Cardinality(A \cap B)

\* C19: two different texts that share one of two tokens compare at 1/2
C19_ProperFraction ==
  /\ probe.fn = "calculateJaccardSimilarity"
  /\ probe.text1 # probe.text2
  /\ probe.forward = Ratio(1, 2)
  /\ probe.backward = Ratio(1, 2)

(***************************************************************************)
(* Properties of the prompt builders.                                      *)
(***************************************************************************)
\* C20: buildContextAwarePrompt, generateContextAwareActionPrompt and
\* enhanceCustomPrompt return the original prompt unchanged when no record is
\* supplied or the record fails isContextSuitableForPrompts (description
\* shorter than 20 characters, or tone 'neutral' with intent 'general purpose
\* text').
C20_UnsuitableRecordLeavesPromptUnchanged ==
  (probe.fn = "built" /\ ~isContextSuitableForPrompts(probe.context)) =>
    /\ probe.built = Prompt(probe.originalPrompt, <<>>, <<>>)
    /\ probe.forAction = Prompt(basePrompt(probe.action), <<>>, <<>>)
    /\ probe.custom = Prompt(probe.originalPrompt, <<>>, <<>>)

(***************************************************************************)
(* Properties of the fingerprint.                                          *)
(***************************************************************************)
\* C21: createTextHash depends on the normalized text only: two texts with the
\* same normalizeText have the same createTextHash.
C21_HashOfNormalizedText ==
  (probe.fn = "createTextHash" /\ probe.normalized1 = probe.normalized2)
    => probe.hash1 = probe.hash2

(***************************************************************************)
(* Properties of checkAndUpdateContext's callback.                         *)
(***************************************************************************)
\* calls of checkAndUpdateContext waiting for the request of owner c
CheckersOf(c) ==
  {w \in CallIds : calls[w].st = "waiting" /\ calls[w].gen = c /\ calls[w].via = "check"}

\* C22: when a generation requested through checkAndUpdateContext succeeds,
\* whether or not the caller's onContextUpdate throws, the call returns the
\* generated record and raises nothing, the record is in the storage key
\* (when its write succeeded) and the generationQueue entry is gone; the
\* callback runs at most once per call and never for an absent record.
C22_CallbackFailureIsIsolated ==
  [][/\ (last'.op = "completeGeneration" /\ CheckersOf(last'.who) # {}) =>
          /\ last'.checked = last'.ret
          /\ raised' = raised
          /\ \A k \in QueueKeys : generationQueue'[k] # last'.who
          /\ last'.cbs <= Cardinality(CheckersOf(last'.who))
          /\ (last'.ret = None) => last'.cbs = 0
          /\ (last'.ret # None /\ ~last'.failed) =>
                /\ storage' # None
                /\ HasKey(storage'.contexts, last'.ret.h)
                /\ storage'.contexts[IndexOf(storage'.contexts, last'.ret.h)].rec = last'.ret
     /\ (last'.op = "checkAndUpdateContext" /\ last'.how = "hit") =>
          /\ last'.checked = last'.ret
          /\ last'.cbs = 1
          /\ raised' = raised
     /\ (last'.op = "checkAndUpdateContext" /\ last'.how # "hit") => last'.cbs = 0]_vars

\* C22: a generation succeeded, its record was written, the callback threw and
\* the store's collection was left without the record
C22_CallbackThrew ==
  /\ last.op = "completeGeneration"
  /\ last.cb = "throws"
  /\ last.ret # None
  /\ last.checked = last.ret
  /\ ~last.failed
  /\ ~HasKey(contexts, last.ret.h)
  /\ getContextFromLocalStorage(last.ret.h) = last.ret

(***************************************************************************)
(* Properties of the generation life cycle.                                *)
(***************************************************************************)
\* C23: a summarizer call that does not answer is ended by a timeout: every
\* call of generateContextForText that is waiting, the owner of the request
\* and the callers coalesced onto it, eventually returns, whether or not the
\* summarizer ever answers.
C23_PendingCallsReturn ==
  \A c \in CallIds : (calls[c].st = "waiting") ~> (calls[c].st # "waiting")

\* C24: generationQueue holds an entry for a key exactly while a generation
\* for that key is pending; given that every sendToAI request returns, every
\* waiting call eventually returns; and a call is coalesced only onto a
\* generation that is still pending, so a call after a failure starts afresh.
C24_QueueEntryWhilePending ==
  /\ [](\A k \in QueueKeys :
          generationQueue[k] # 0 <=>
            \E c \in Owners : CacheKey(createTextHash(calls[c].text), calls[c].m) = k)
  /\ [](Owners = {} => \A k \in QueueKeys : generationQueue[k] = 0)
  /\ [][(last'.op = "generateContextForText" /\ last'.how = "coalesced")
          => last'.who \in Owners]_vars
  /\ \A c \in CallIds : (calls[c].st = "waiting") ~> (calls[c].st # "waiting")

\* C24: a generation has failed, its callers have returned and the queue is
\* empty
C24_FailedAndIdle ==
  /\ last.op = "completeGeneration"
  /\ last.ret = None
  /\ \A k \in QueueKeys : generationQueue[k] = 0
  /\ \A c \in CallIds : calls[c].st # "waiting"

(***************************************************************************)
(* Properties of response parsing.                                         *)
(***************************************************************************)
\* C25: whenever structured parsing fails, because the response is not JSON or
\* because the object lacks description, tone or intent, the result is that of
\* the free-text extraction on the raw response; absent only when that fails.
C25_FallbackOnEveryParseFailure ==
  (probe.fn = "parseContextResponse" /\ probe.response.json # "complete")
    => probe.parsed = extractContextFromFreeText(probe.response)

(***************************************************************************)
(* Properties of the emergency cleanup.                                    *)
(***************************************************************************)
\* C26: an emergency cleanup of n >= 1 records keeps exactly floor(n / 2) of
\* them, the greatest under the (lastUsed, usageCount) order, so the
\* collection is strictly smaller afterwards.
C26_CleanupKeepsGreatestHalf ==
  [][(last'.op = "saveEffect" /\ last'.how = "cleanup" /\ Len(contexts) >= 1) =>
       /\ Len(contexts') = Len(contexts) \div 2
       /\ Len(contexts') < Len(contexts)
       /\ Keys(contexts') \subseteq Keys(contexts)
       /\ \A i \in 1..Len(contexts), j \in 1..Len(contexts) :
            (contexts[i].h \notin Keys(contexts') /\ contexts[j].h \in Keys(contexts'))
              => Compare(contexts[i], contexts[j]) <= 0]_vars

\* C27: the save and cleanup cycle terminates even when every write fails: a
\* failed save that schedules another attempt leaves strictly fewer records,
\* a failed save of an empty collection and a successful save schedule
\* nothing, so finitely many attempts follow a put.
C27_SaveCycleTerminates ==
  [][last'.op = "saveEffect" =>
       IF ~last'.failed \/ Len(contexts) = 0 THEN ~savePending'
       ELSE savePending' => Len(contexts') < Len(contexts)]_vars

\* C28: immediately after addContext(record) the collection holds a record for
\* record.textHash: the eviction pass of the same put never removes the record
\* just inserted, also when other records carry the same lastUsed instant.
C28_InsertedRecordSurvivesPut ==
  [][last'.op = "addContext" => HasKey(contexts', last'.arg.hash)]_vars

\* C29: the service's saveContextToLocalStorage and the hook's save effect agree
\* on the stored representation under every interleaving: each stored entry is
\* decoded to the record that was written by the service's read and by the
\* hook's load, and after a write by one path every entry the other path wrote
\* is still stored, unchanged unless the write put a record under its fingerprint.
C29_WritePathsAgree ==
  /\ [](storage # None =>
          \A i \in 1..Len(storage.contexts) :
            LET entry == storage.contexts[i]
            IN  /\ ReadUncompressed(entry) = entry.rec
                /\ (IF storage.compressed THEN decompressContext(entry)
                                          ELSE ReadUncompressed(entry)) = entry.rec)
  /\ [][(storage # None /\ storage' # None) =>
          \A i \in 1..Len(storage.contexts) :
            LET entry == storage.contexts[i]
                writer == IF entry.form = "raw" THEN "completeGeneration" ELSE "saveEffect"
            IN  (/\ last'.op \in {"saveEffect", "completeGeneration"}
                 /\ ~last'.failed
                 /\ last'.op # writer)
                => \E j \in 1..Len(storage'.contexts) :
                      /\ storage'.contexts[j].h = entry.h
                      /\ \/ storage'.contexts[j].rec = entry.rec
                         \/ storage'.contexts[j].form # entry.form]_vars

\* C30: when the debounce timer of the latest edit fires while the service is
\* enabled and the editor's text is less than updateThreshold similar to the
\* text the held context was generated from, a generation for the editor's text
\* is requested, also when the text got there by a series of small edits.
C30_DriftTriggersGeneration ==
  [][LET generatedFrom == [norm |-> currentContext.h, large |-> FALSE]
     IN  (/\ last'.op = "checkAndUpdateContext"
          /\ last'.arg = lastTrigger
          /\ enabled
          /\ currentContext # None
          /\ ~SimilarAtLeastThreshold(last'.arg, generatedFrom))
         => last'.how \in {"hit", "started", "coalesced"}]_vars

====
